---- MODULE Spec2Model ----
(***************************************************************************)
(* Model of the shortcut_bot command-ingestion pipeline:                   *)
(*   agent.py               ingestion workflow, watcher, CLI modes         *)
(*   file_utils.py          Safe Writer (update_shortcuts_safely)          *)
(*   json_validator.py      JSON Store Validator                           *)
(*   sync_cloud_to_local.py / sync_local_to_cloud.py   remote sync         *)
(*                                                                         *)
(* Texts (file contents, LLM responses) are sequences of characters.  A    *)
(* character is a record [k, v]: k = "p" for a literal character v, and    *)
(* k = "s" for a whole JSON string literal with value v (the characters    *)
(* inside a string literal never matter to the code, so a literal is one   *)
(* unit).  Indentation spaces of json.dumps(indent=2) are left out: they   *)
(* change neither the parse nor any line count.                            *)
(***************************************************************************)
EXTENDS Integers, Sequences, FiniteSets, TLC

(***************************************************************************)
(* Bounds of the model                                                     *)
(***************************************************************************)
\* the clock stops the model after this many writes to new_command.txt
MaxTime == 4
\* longest text of the Safe Writer's pure-function check
MaxLen == 3
\* number of runs of the sync scripts in the Remote Sync Adapter's check
MaxSync == 3
\* number of consecutive calls of validate_json in the validator's check
MaxCalls == 2

(***************************************************************************)
(* Characters and texts                                                    *)
(***************************************************************************)
P(c) == [k |-> "p", v |-> c]
S(s) == [k |-> "s", v |-> s]
NL == P("\n")
\* form feed: a line boundary for str.splitlines, not for file.readlines
FF == P("\f")
SP == P(" ")
EOF == P("<eof>")

Tok(t, i) == IF i \in 1..Len(t) THEN t[i] ELSE EOF

\* number of lines that ends at a separator of seps, plus a last unterminated line
CountLines(text, seps) ==
    Cardinality({i \in 1..Len(text) : text[i] \in seps})
    + (IF Len(text) > 0 /\ text[Len(text)] \notin seps THEN 1 ELSE 0)

\* len(f.readlines()): text mode, lines end at "\n"
readlines_len(text) == CountLines(text, {NL})

\* len(s.splitlines()): str.splitlines also breaks at "\f" (and other separators)
splitlines_len(text) == CountLines(text, {NL, FF})

\* str.strip(): drops leading and trailing whitespace
IsSpace(c) == c \in {NL, SP, FF}
RECURSIVE lstrip(_)
lstrip(t) == IF t # <<>> /\ IsSpace(Head(t)) THEN lstrip(Tail(t)) ELSE t
RECURSIVE rstrip(_)
rstrip(t) ==
    IF t # <<>> /\ IsSpace(t[Len(t)]) THEN rstrip(SubSeq(t, 1, Len(t) - 1)) ELSE t
strip(t) == rstrip(lstrip(t))

(***************************************************************************)
(* JSON values: [t, s, items]; t is the type, s the value of a string,     *)
(* items the elements of an array or the [k, v] members of an object in    *)
(* insertion order (a Python dict).                                        *)
(***************************************************************************)
JStr(s) == [t |-> "str", s |-> s, items |-> <<>>]
JNull == [t |-> "null", s |-> "", items |-> <<>>]
JArr(xs) == [t |-> "arr", s |-> "", items |-> xs]
JObj(ms) == [t |-> "obj", s |-> "", items |-> ms]
Member(k, v) == [k |-> k, v |-> v]

\* Python truthiness of a decoded JSON value
Truthy(x) == ~(x.t = "null" \/ (x.t = "str" /\ x.s = "") \/ (x.t \in {"arr", "obj"} /\ x.items = <<>>))

\* key in d
dict_has(d, key) == \E i \in 1..Len(d.items) : d.items[i].k = key
dict_idx(d, key) == CHOOSE i \in 1..Len(d.items) : d.items[i].k = key
\* d.get(key): None (JSON null) when the key is absent
dict_get(d, key) == IF dict_has(d, key) THEN d.items[dict_idx(d, key)].v ELSE JNull
\* d[key] = v: a present key keeps its place
dict_set(d, key, v) ==
    IF dict_has(d, key)
    THEN [d EXCEPT !.items[dict_idx(d, key)].v = v]
    ELSE [d EXCEPT !.items = Append(@, Member(key, v))]

(***************************************************************************)
(* json.dumps(value, indent=2)                                             *)
(***************************************************************************)
RECURSIVE json_dumps(_)
RECURSIVE DumpItems(_, _)
DumpItems(x, i) ==
    LET one == IF x.t = "obj"
               THEN <<S(x.items[i].k), P(":")>> \o json_dumps(x.items[i].v)
               ELSE json_dumps(x.items[i])
    IN  IF i = Len(x.items) THEN one ELSE one \o <<P(","), NL>> \o DumpItems(x, i + 1)
json_dumps(x) ==
    CASE x.t = "str" -> <<S(x.s)>>
      [] x.t = "null" -> <<P("null")>>
      [] x.t = "arr" -> IF x.items = <<>> THEN <<P("["), P("]")>>
                        ELSE <<P("["), NL>> \o DumpItems(x, 1) \o <<NL, P("]")>>
      [] x.t = "obj" -> IF x.items = <<>> THEN <<P("{"), P("}")>>
                        ELSE <<P("{"), NL>> \o DumpItems(x, 1) \o <<NL, P("}")>>

(***************************************************************************)
(* json.loads(text): [ok, val]; ok = FALSE is json.JSONDecodeError         *)
(***************************************************************************)
ParseFail == [ok |-> FALSE, val |-> JNull, nxt |-> 0]
ParseOk(v, n) == [ok |-> TRUE, val |-> v, nxt |-> n]
RECURSIVE ParseValue(_, _)
RECURSIVE ParseMembers(_, _, _)
RECURSIVE ParseElements(_, _, _)
ParseValue(t, i) ==
    LET c == Tok(t, i)
    IN  CASE c.k = "s" -> ParseOk(JStr(c.v), i + 1)
          [] c = P("null") -> ParseOk(JNull, i + 1)
          [] c = P("{") -> IF Tok(t, i + 1) = P("}") THEN ParseOk(JObj(<<>>), i + 2)
                           ELSE ParseMembers(t, i + 1, JObj(<<>>))
          [] c = P("[") -> IF Tok(t, i + 1) = P("]") THEN ParseOk(JArr(<<>>), i + 2)
                           ELSE ParseElements(t, i + 1, <<>>)
          [] OTHER -> ParseFail
ParseMembers(t, i, acc) ==
    IF Tok(t, i).k = "s" /\ Tok(t, i + 1) = P(":")
    THEN LET r == ParseValue(t, i + 2)
         IN  IF ~r.ok THEN ParseFail
             ELSE LET acc2 == dict_set(acc, t[i].v, r.val)
                  IN  CASE Tok(t, r.nxt) = P(",") -> ParseMembers(t, r.nxt + 1, acc2)
                        [] Tok(t, r.nxt) = P("}") -> ParseOk(acc2, r.nxt + 1)
                        [] OTHER -> ParseFail
    ELSE ParseFail
ParseElements(t, i, acc) ==
    LET r == ParseValue(t, i)
    IN  IF ~r.ok THEN ParseFail
        ELSE LET acc2 == Append(acc, r.val)
             IN  CASE Tok(t, r.nxt) = P(",") -> ParseElements(t, r.nxt + 1, acc2)
                   [] Tok(t, r.nxt) = P("]") -> ParseOk(JArr(acc2), r.nxt + 1)
                   [] OTHER -> ParseFail

\* JSON whitespace between tokens is skipped ("\f" is not JSON whitespace)
IsJsonSpace(c) == c \in {NL, SP}
json_loads(text) ==
    LET t == SelectSeq(text, LAMBDA c : ~IsJsonSpace(c))
        r == ParseValue(t, 1)
    IN  IF r.ok /\ r.nxt = Len(t) + 1 THEN [ok |-> TRUE, val |-> r.val]
        ELSE [ok |-> FALSE, val |-> JNull]

(***************************************************************************)
(* Files                                                                   *)
(***************************************************************************)
File(text) == [exists |-> TRUE, text |-> text]
NoFile == [exists |-> FALSE, text |-> <<>>]

\* file_utils.get_line_count: 0 for a missing file
get_line_count(file) == IF file.exists THEN readlines_len(file.text) ELSE 0

\* mutant: the content is written whatever the line counts are
update_shortcuts_safely_unguarded(file, updated_content) ==
    [ok |-> TRUE, file |-> File(updated_content)]

\* mutant: the guard compares the other way round
update_shortcuts_safely_inverted(file, updated_content) ==
    IF splitlines_len(updated_content) > get_line_count(file)
    THEN [ok |-> FALSE, file |-> file]
    ELSE [ok |-> TRUE, file |-> File(updated_content)]

\* mutant: the file is opened for writing before the line counts are compared
update_shortcuts_safely_write_first(file, updated_content) ==
    [ok |-> ~(splitlines_len(updated_content) < get_line_count(file)),
     file |-> File(updated_content)]

\* file_utils.update_shortcuts_safely: [ok, file], the result and the file afterwards
update_shortcuts_safely(file, updated_content) ==
    LET before_lines == get_line_count(file)
        after_lines == splitlines_len(updated_content)
    IN  IF after_lines < before_lines
        THEN [ok |-> FALSE, file |-> file]
        ELSE [ok |-> TRUE, file |-> File(updated_content)]

\* mutant: FileNotFoundError is not told apart from a decode error
validate_json_pair_one_message(file, readable) ==
    CASE ~file.exists -> [flag |-> FALSE, message |-> "Invalid JSON"]
      [] file.exists /\ ~readable ->
            [flag |-> FALSE, message |-> "An unexpected error occurred"]
      [] file.exists /\ readable /\ ~json_loads(file.text).ok ->
            [flag |-> FALSE, message |-> "Invalid JSON"]
      [] OTHER -> [flag |-> TRUE, message |-> "JSON is valid."]

\* json_validator.validate_json: the (flag, message) pair it returns.
\* readable = FALSE: open() or read() fails with an error that is not
\* FileNotFoundError (permissions, a directory, undecodable bytes)
validate_json_pair(file, readable) ==
    CASE ~file.exists -> [flag |-> FALSE, message |-> "File not found"]
      [] file.exists /\ ~readable ->
            [flag |-> FALSE, message |-> "An unexpected error occurred"]
      [] file.exists /\ readable /\ ~json_loads(file.text).ok ->
            [flag |-> FALSE, message |-> "Invalid JSON"]
      [] OTHER -> [flag |-> TRUE, message |-> "JSON is valid."]

\* json_validator.validate_json on a readable path: the flag of the pair
validate_json(file) == validate_json_pair(file, TRUE).flag

(***************************************************************************)
(* Remote Sync Adapter                                                     *)
(***************************************************************************)
\* outcomes of the GET of sync_cloud_to_local, lines 19-21.  "error": the
\* request failed, or the body could not be decoded, or it is no object; each
\* of the handlers at lines 30-35 prints a message and does nothing else
GetOutcomes == {"ok", "error"}

\* mutant: the record is written through the Safe Writer
sync_cloud_to_local_guarded(file, record, get) ==
    IF get = "ok" /\ Truthy(record)
    THEN update_shortcuts_safely(file, json_dumps(record)).file
    ELSE file

\* mutant: the file is opened for writing before the response is looked at
sync_cloud_to_local_truncates(file, record, get) ==
    IF get = "ok" /\ Truthy(record) THEN File(json_dumps(record)) ELSE File(<<>>)

\* sync_cloud_to_local.sync_cloud_to_local: the local store file afterwards;
\* record is the remote 'record' (None when the response holds none)
sync_cloud_to_local(file, record, get) ==
    IF get = "ok" /\ Truthy(record) THEN File(json_dumps(record)) ELSE file

\* mutant: the upload is conditional, a record already there is kept
sync_local_to_cloud_first_wins(file, record, put_ok) ==
    IF ~file.exists THEN record
    ELSE LET data == json_loads(file.text)
         IN  IF ~data.ok THEN record
             ELSE IF put_ok /\ record = JNull THEN data.val ELSE record

\* sync_local_to_cloud.sync_local_to_cloud: the remote record afterwards
sync_local_to_cloud(file, record, put_ok) ==
    IF ~file.exists THEN record
    ELSE LET data == json_loads(file.text)
         IN  IF ~data.ok THEN record
             ELSE IF put_ok THEN data.val ELSE record

(***************************************************************************)
(* LLM Formatter                                                           *)
(***************************************************************************)
\* the backtick character
BT == P("backtick")
FenceOpen == <<BT, BT, BT, P("j"), P("s"), P("o"), P("n")>>
FenceClose == <<BT, BT, BT>>

\* s.startswith(prefix)
startswith(t, prefix) == Len(t) >= Len(prefix) /\ SubSeq(t, 1, Len(prefix)) = prefix
\* s[7:-3]
slice_7_m3(t) == SubSeq(t, 8, Len(t) - 3)

\* agent.format_command_with_llm: [exc, none, text].  exc # "" is an exception
\* that leaves the function; none is a None result; llm is the outcome of the
\* HTTP exchange, [kind, content].
format_command_with_llm(file, llm) ==
    LET data == json_loads(file.text)
    IN  CASE ~file.exists -> [exc |-> "FileNotFoundError", none |-> FALSE, text |-> <<>>]
          [] file.exists /\ ~data.ok -> [exc |-> "JSONDecodeError", none |-> FALSE, text |-> <<>>]
          [] file.exists /\ data.ok /\ data.val.t # "obj" ->
                [exc |-> "AttributeError", none |-> FALSE, text |-> <<>>]
          [] OTHER -> IF llm.kind = "ok"
                      THEN [exc |-> "", none |-> FALSE, text |-> llm.content]
                      ELSE [exc |-> "", none |-> TRUE, text |-> <<>>]

(***************************************************************************)
(* Ingestion Workflow: agent._process_command_logic, cut at its two        *)
(* blocking prompts.  Each part yields                                     *)
(*   [next, outcome, exc, raised_in, shortcuts, formatted_command,         *)
(*    formatter]                                                           *)
(* next: "return", "raise", "confirm_category" or "confirm_command";       *)
(* formatter: what format_command_with_llm did: "not_called", "raised",    *)
(* "none" (returned None) or "text".                                       *)
(***************************************************************************)
Res(next, outcome, exc, sc, fc, fmt) ==
    [next |-> next, outcome |-> outcome, exc |-> exc,
     raised_in |-> IF exc = "" THEN ""
                   ELSE IF fmt = "raised" THEN "format_command_with_llm"
                   ELSE "_process_command_logic",
     shortcuts |-> sc, formatted_command |-> fc, formatter |-> fmt]
Return(outcome, sc, fc, fmt) == Res("return", outcome, "", sc, fc, fmt)
Raise(exc, sc, fc, fmt) == Res("raise", "Raised", exc, sc, fc, fmt)

\* mutant: the stored entries are read under the key "Command"
is_duplicate_wrong_key(shortcuts, category, formatted_command) ==
    LET proposed_command_text == dict_get(formatted_command, "command")
        existing == dict_get(shortcuts, category.s).items
    IN  \E i \in 1..Len(existing) :
            dict_get(existing[i], "Command") = proposed_command_text

\* mutant: only the first entry of the category is compared
is_duplicate_first_only(shortcuts, category, formatted_command) ==
    LET proposed_command_text == dict_get(formatted_command, "command")
        existing == dict_get(shortcuts, category.s).items
    IN  existing # <<>> /\ dict_get(existing[1], "command") = proposed_command_text

\* lines 360-381: some entry of shortcuts[category] has the proposed command
is_duplicate(shortcuts, category, formatted_command) ==
    LET proposed_command_text == dict_get(formatted_command, "command")
        existing == dict_get(shortcuts, category.s).items
    IN  \E i \in 1..Len(existing) :
            dict_get(existing[i], "command") = proposed_command_text

\* lines 360-399: duplicate check, then the approval prompt
DuplicateCheck(shortcuts, formatted_command) ==
    LET category == dict_get(formatted_command, "category")
    IN  IF is_duplicate(shortcuts, category, formatted_command)
        THEN Return("DuplicateCommand", shortcuts, formatted_command, "text")
        ELSE Res("confirm_command", "running", "", shortcuts, formatted_command, "text")

\* lines 281-283: strip a json code fence, then json.loads
ParseResponse(formatted_command_str) ==
    IF startswith(strip(formatted_command_str), FenceOpen)
    THEN json_loads(strip(slice_7_m3(strip(formatted_command_str))))
    ELSE json_loads(formatted_command_str)

\* mutant: an empty raw command is handed to the formatter like any other
CycleBegin_without_empty_check(raw_command, file, llm) ==
    LET f == format_command_with_llm(file, llm)
    IN  IF f.exc # "" THEN Raise(f.exc, JNull, JNull, "raised")
        ELSE IF f.none THEN Return("FormatterFailure", JNull, JNull, "none")
        ELSE
        LET parsed == ParseResponse(f.text)
            formatted_command == parsed.val
            shortcuts == json_loads(file.text).val
            category == dict_get(formatted_command, "category")
        IN  IF ~parsed.ok THEN Return("MalformedLLMOutput", JNull, JNull, "text")
            ELSE IF formatted_command.t # "obj"
            THEN Raise("AttributeError", shortcuts, formatted_command, "text")
            ELSE IF ~Truthy(category)
            THEN Return("MissingCategory", shortcuts, formatted_command, "text")
            ELSE IF category.t # "str"
            THEN Raise("TypeError", shortcuts, formatted_command, "text")
            ELSE IF ~dict_has(shortcuts, category.s)
            THEN Res("confirm_category", "running", "", shortcuts, formatted_command, "text")
            ELSE DuplicateCheck(shortcuts, formatted_command)

\* lines 248-354: from the empty check to the first prompt
CycleBegin(raw_command, file, llm) ==
    IF raw_command = <<>> THEN Return("Empty", JNull, JNull, "not_called")
    ELSE
    LET f == format_command_with_llm(file, llm)
    IN  IF f.exc # "" THEN Raise(f.exc, JNull, JNull, "raised")
        ELSE IF f.none THEN Return("FormatterFailure", JNull, JNull, "none")
        ELSE
        LET parsed == ParseResponse(f.text)
            formatted_command == parsed.val
            shortcuts == json_loads(file.text).val
            category == dict_get(formatted_command, "category")
        IN  IF ~parsed.ok THEN Return("MalformedLLMOutput", JNull, JNull, "text")
            ELSE IF formatted_command.t # "obj"
            THEN Raise("AttributeError", shortcuts, formatted_command, "text")
            ELSE IF ~Truthy(category)
            THEN Return("MissingCategory", shortcuts, formatted_command, "text")
            ELSE IF category.t # "str"   \* a list or a dict is unhashable
            THEN Raise("TypeError", shortcuts, formatted_command, "text")
            ELSE IF ~dict_has(shortcuts, category.s)
            THEN Res("confirm_category", "running", "", shortcuts, formatted_command, "text")
            ELSE DuplicateCheck(shortcuts, formatted_command)

\* mutant: the category is created whatever the user answers
AfterCategoryAnswer_ignores_answer(answer, shortcuts, formatted_command) ==
    LET category == dict_get(formatted_command, "category")
    IN  DuplicateCheck(dict_set(shortcuts, category.s, JArr(<<>>)), formatted_command)

\* lines 339-354: the answer to "Do you want to create it?"
AfterCategoryAnswer(answer, shortcuts, formatted_command) ==
    LET category == dict_get(formatted_command, "category")
    IN  IF ~answer THEN Return("UserRejectedCategory", shortcuts, formatted_command, "text")
        ELSE DuplicateCheck(dict_set(shortcuts, category.s, JArr(<<>>)), formatted_command)

\* line 441: the candidate without its "category" key
command_to_add(formatted_command) ==
    [formatted_command EXCEPT !.items = SelectSeq(@, LAMBDA m : m.k # "category")]

\* mutant: the category's list is replaced by the new entry
AppendEntry_replaces(shortcuts, category, entry) ==
    dict_set(shortcuts, category.s, JArr(<<entry>>))

\* line 444: shortcuts[category].append(command_to_add)
AppendEntry(shortcuts, category, entry) ==
    dict_set(shortcuts, category.s,
             [dict_get(shortcuts, category.s) EXCEPT !.items = Append(@, entry)])

\* mutant: a declined candidate leaves the in-memory store, with a category
\* created at the first prompt, on disk
AfterApproval_keeps_category(answer, shortcuts, formatted_command, file, record, validator_runs, put_ok) ==
    LET category == dict_get(formatted_command, "category")
        updated == AppendEntry(shortcuts, category, command_to_add(formatted_command))
        updated_content == json_dumps(updated)
        w == update_shortcuts_safely(file, updated_content)
        Out(o, f, r, p, wr) == [outcome |-> o, file |-> f, record |-> r, pushed |-> p, wrote |-> wr]
    IN  IF ~answer
        THEN Out("UserRejectedCandidate", File(json_dumps(shortcuts)), record, FALSE, FALSE)
        ELSE IF ~w.ok THEN Out("WriteGuardViolation", w.file, record, FALSE, FALSE)
        ELSE IF ~(validator_runs /\ validate_json(w.file))
        THEN Out("PostWriteCorruption", w.file, record, FALSE, TRUE)
        ELSE Out("Committed", w.file, sync_local_to_cloud(w.file, record, put_ok), TRUE, TRUE)

\* mutant: a failed push restores the file the cycle started with
AfterApproval_reverts(answer, shortcuts, formatted_command, file, record, validator_runs, put_ok) ==
    LET category == dict_get(formatted_command, "category")
        updated == AppendEntry(shortcuts, category, command_to_add(formatted_command))
        updated_content == json_dumps(updated)
        w == update_shortcuts_safely(file, updated_content)
        Out(o, f, r, p, wr) == [outcome |-> o, file |-> f, record |-> r, pushed |-> p, wrote |-> wr]
    IN  IF ~answer THEN Out("UserRejectedCandidate", file, record, FALSE, FALSE)
        ELSE IF ~w.ok THEN Out("WriteGuardViolation", w.file, record, FALSE, FALSE)
        ELSE IF ~(validator_runs /\ validate_json(w.file))
        THEN Out("PostWriteCorruption", w.file, record, FALSE, TRUE)
        ELSE IF ~put_ok THEN Out("Committed", file, record, TRUE, TRUE)
        ELSE Out("Committed", w.file, sync_local_to_cloud(w.file, record, put_ok), TRUE, TRUE)

\* mutant: the serialized store is handed to the Safe Writer without its
\* last character
AfterApproval_writes_partial(answer, shortcuts, formatted_command, file, record, validator_runs, put_ok) ==
    LET category == dict_get(formatted_command, "category")
        updated == AppendEntry(shortcuts, category, command_to_add(formatted_command))
        updated_content == json_dumps(updated)
        w == update_shortcuts_safely(file, SubSeq(updated_content, 1, Len(updated_content) - 1))
        Out(o, f, r, p, wr) == [outcome |-> o, file |-> f, record |-> r, pushed |-> p, wrote |-> wr]
    IN  IF ~answer THEN Out("UserRejectedCandidate", file, record, FALSE, FALSE)
        ELSE IF ~w.ok THEN Out("WriteGuardViolation", w.file, record, FALSE, FALSE)
        ELSE IF ~(validator_runs /\ validate_json(w.file))
        THEN Out("PostWriteCorruption", w.file, record, FALSE, TRUE)
        ELSE Out("Committed", w.file, sync_local_to_cloud(w.file, record, put_ok), TRUE, TRUE)

\* mutant: the push is made right after the write, before the validation
AfterApproval_pushes_early(answer, shortcuts, formatted_command, file, record, validator_runs, put_ok) ==
    LET category == dict_get(formatted_command, "category")
        updated == AppendEntry(shortcuts, category, command_to_add(formatted_command))
        updated_content == json_dumps(updated)
        w == update_shortcuts_safely(file, updated_content)
        Out(o, f, r, p, wr) == [outcome |-> o, file |-> f, record |-> r, pushed |-> p, wrote |-> wr]
    IN  IF ~answer THEN Out("UserRejectedCandidate", file, record, FALSE, FALSE)
        ELSE IF ~w.ok THEN Out("WriteGuardViolation", w.file, record, FALSE, FALSE)
        ELSE IF ~(validator_runs /\ validate_json(w.file))
        THEN Out("PostWriteCorruption", w.file,
                 sync_local_to_cloud(w.file, record, put_ok), TRUE, TRUE)
        ELSE Out("Committed", w.file, sync_local_to_cloud(w.file, record, put_ok), TRUE, TRUE)

\* lines 399-531: the answer to "Do you approve this command?", then commit,
\* post-write validation and push: [outcome, file, record, pushed, wrote].
\* validator_runs = FALSE: the json_validator.py subprocess prints no "True"
\* whatever the file holds (it could not run or could not read the file).
AfterApproval(answer, shortcuts, formatted_command, file, record, validator_runs, put_ok) ==
    LET category == dict_get(formatted_command, "category")
        updated == AppendEntry(shortcuts, category, command_to_add(formatted_command))
        updated_content == json_dumps(updated)
        w == update_shortcuts_safely(file, updated_content)
        Out(o, f, r, p, wr) == [outcome |-> o, file |-> f, record |-> r, pushed |-> p, wrote |-> wr]
    IN  IF ~answer THEN Out("UserRejectedCandidate", file, record, FALSE, FALSE)
        ELSE IF ~w.ok THEN Out("WriteGuardViolation", w.file, record, FALSE, FALSE)
        ELSE IF ~(validator_runs /\ validate_json(w.file))
        THEN Out("PostWriteCorruption", w.file, record, FALSE, TRUE)
        ELSE Out("Committed", w.file, sync_local_to_cloud(w.file, record, put_ok), TRUE, TRUE)

\* lines 399-531: the records logging.* appends to agent.log after the
\* approval prompt, by the way the cycle ends.  Line 531 is reached whenever
\* line 528 is: the result of the sync subprocess is not looked at.
CommitLog(outcome) ==
    CASE outcome = "UserRejectedCandidate" ->
            <<"Command not approved by user. Aborting.">>
      [] outcome = "WriteGuardViolation" ->
            <<"User approved command. Proceeding to update shortcuts.",
              "Failed to update shortcuts.json safely. Aborting.">>
      [] outcome = "PostWriteCorruption" ->
            <<"User approved command. Proceeding to update shortcuts.",
              "shortcuts.json validation failed. Aborting.",
              "Validator output">>
      [] outcome = "Committed" ->
            <<"User approved command. Proceeding to update shortcuts.",
              "JSON validation successful.",
              "Successfully synced to the cloud.">>
      [] OTHER -> <<>>

\* lines 399-531: what click.echo, and the print of sync_local_to_cloud.py
\* (its output is not captured), show on the terminal after the approval prompt
CommitEcho(outcome, put_ok) ==
    CASE outcome = "UserRejectedCandidate" -> <<"Command not approved. Aborting.">>
      [] outcome = "WriteGuardViolation" ->
            <<"ERROR: Failed to update shortcuts.json safely. Aborting.">>
      [] outcome = "PostWriteCorruption" ->
            <<"ERROR: shortcuts.json validation failed. Aborting.">>
      [] outcome = "Committed" ->
            <<"Successfully updated shortcuts.json (line_diff lines).",
              "shortcuts.json passed validation.",
              IF put_ok THEN "Successfully synced local data to the cloud."
                        ELSE "An error occurred during the request">>
      [] OTHER -> <<>>

(***************************************************************************)
(* State                                                                   *)
(***************************************************************************)
VARIABLES
    mode,               \* CLI command: "watch", "process" or "manual"
    pc,                 \* position of the process
    shortcuts_file,     \* shortcuts.json: [exists, text]
    new_command_file,   \* new_command.txt: [exists, text, mtime, by]
    now,                \* clock: number of writes to new_command.txt so far
    last_modified,      \* watch_for_new_command's local
    remote,             \* the remote record (None when the bin holds none)
    shortcuts,          \* _process_command_logic's local
    formatted_command,  \* _process_command_logic's local
    cyc,                \* record of the current (or last) ingestion cycle
    prev,               \* what is kept of the cycle before it
    call,               \* one call of update_shortcuts_safely (SpecWriter)
    pull,               \* the last run of sync_cloud_to_local.py
    push,               \* the last run of sync_local_to_cloud.py (SpecSync)
    peer_file           \* shortcuts.json of a second machine (SpecSync)

vars == <<mode, pc, shortcuts_file, new_command_file, now, last_modified, remote,
          shortcuts, formatted_command, cyc, prev, call, pull, push, peer_file>>

Modes == {"watch", "process", "manual"}
Terminated == {"exited", "crashed"}

\* an entry as the workflow stores it, and a candidate as the LLM proposes it
Entry(cmd) ==
    JObj(<<Member("command", JStr(cmd)), Member("description", JStr("d")),
           Member("usage example", JStr("u"))>>)
Candidate(cat, cmd) ==
    JObj(<<Member("category", JStr(cat))>> \o Entry(cmd).items)
CandidateNoCategory(cmd) == Entry(cmd)
\* a candidate without "description" and "usage example", with a key "note"
CandidateOtherKeys(cat, cmd) ==
    JObj(<<Member("category", JStr(cat)), Member("command", JStr(cmd)),
           Member("note", JStr("n"))>>)
\* a candidate whose "category" is a list of names
CandidateListCategory(cmd) ==
    JObj(<<Member("category", JArr(<<JStr("GIT")>>))>> \o Entry(cmd).items)

StoreEmpty == JObj(<<>>)
StoreGit == JObj(<<Member("GIT", JArr(<<Entry("c1")>>))>>)
StoreTwo == JObj(<<Member("GIT", JArr(<<Entry("c1"), Entry("c2")>>)),
                   Member("DOCKER", JArr(<<>>))>>)

\* blank lines after the document: valid JSON with more lines than json.dumps gives
Padding == <<NL, NL, NL, NL, NL, NL, NL, NL>>

InitStoreFiles ==
    { File(json_dumps(StoreGit)),               \* as json.dump(indent=2) writes it
      File(json_dumps(StoreGit) \o Padding),    \* edited by hand, same document
      File(json_dumps(StoreEmpty)),
      File(<<P("{"), NL, S("GIT"), P(":"), P("[")>>),   \* truncated: not JSON
      File(<<P("["), P("]")>>),                 \* JSON, but no object
      NoFile }

InitRemote == {JNull, StoreEmpty, StoreTwo}

RawLs == <<P("l"), P("s")>>
\* what a user saves into new_command.txt
UserTexts == {RawLs \o <<NL>>, <<SP, NL>>}
\* what a user types at the manual prompt (click.prompt insists on some input)
ManualTexts == {RawLs, <<SP>>}

Fenced(t) == FenceOpen \o <<NL>> \o t \o <<NL>> \o FenceClose
LLMTexts ==
    { json_dumps(Candidate("GIT", cmd)) : cmd \in {"c1", "c2"} }
    \cup { json_dumps(Candidate("NEW", "c1")),
           json_dumps(Candidate("", "c1")), json_dumps(CandidateNoCategory("c1")),
           json_dumps(CandidateListCategory("c2")),
           json_dumps(Candidate("git", "c1")),              \* category in lower case
           json_dumps(CandidateOtherKeys("GIT", "c2")),
           Fenced(json_dumps(Candidate("GIT", "c2"))),
           <<P("S"), P("o"), P("r"), P("r"), P("y")>>,      \* prose, not JSON
           <<P("["), S("c1"), P("]")>> }                    \* JSON, but no object
\* outcomes of the POST to the LLM: HTTP error, any other exception, or a text
LLMOutcomes ==
    { [kind |-> "http_error", content |-> <<>>], [kind |-> "exception", content |-> <<>>] }
    \cup { [kind |-> "ok", content |-> t] : t \in LLMTexts }

\* by: who wrote the file last, "user" or "agent" (kept for the properties only)
CmdFile(text, mtime, by) == [exists |-> TRUE, text |-> text, mtime |-> mtime, by |-> by]
NoCmdFile == [exists |-> FALSE, text |-> <<>>, mtime |-> 0, by |-> "user"]

NoCycle ==
    [n |-> 0, file_triggered |-> FALSE, outcome |-> "none", exc |-> "", raised_in |-> "",
     store_before |-> NoFile, remote_before |-> JNull, formatter |-> "not_called",
     cand |-> JNull, prompts |-> 0, approval_prompt |-> FALSE, declined |-> FALSE,
     wrote |-> FALSE, pushed |-> FALSE, put_ok |-> FALSE, log |-> <<>>, echo |-> <<>>,
     category_answer |-> "none", input |-> <<>>, read_mtime |-> 0, lost |-> <<>>]
NoCall == [state |-> "none", content |-> <<>>, before |-> NoFile, ret |-> FALSE]
\* by: the machine that ran the script; get, put_ok: outcome of the request;
\* changed: the script left a shortcuts.json other than the one it found;
\* file: the machine's shortcuts.json when the script started;
\* record, remote_before: the remote record when the script started
\* at: the clock when the script started; pushers: the machines that have
\* uploaded their store so far
NoPull == [done |-> FALSE, by |-> "A", at |-> 0, get |-> "ok", changed |-> FALSE,
           record |-> JNull]
NoPush == [done |-> FALSE, by |-> "A", at |-> 0, put_ok |-> FALSE, file |-> NoFile,
           remote_before |-> JNull, pushers |-> {}]

Aborted ==
    {"Empty", "FormatterFailure", "MalformedLLMOutput", "MissingCategory",
     "UserRejectedCategory", "DuplicateCommand", "UserRejectedCandidate",
     "WriteGuardViolation", "PostWriteCorruption"}

Init ==
    /\ mode \in Modes
    /\ pc = "start"
    /\ shortcuts_file \in InitStoreFiles
    /\ new_command_file \in {NoCmdFile} \cup {CmdFile(t, 0, "user") : t \in UserTexts \cup {<<>>}}
    /\ now = 0
    /\ last_modified = 0
    /\ remote \in InitRemote
    /\ shortcuts = JNull
    /\ formatted_command = JNull
    /\ cyc = NoCycle
    /\ prev = NoCycle
    /\ call = NoCall
    /\ pull = NoPull
    /\ push = NoPush
    /\ peer_file = NoFile

(***************************************************************************)
(* End of a cycle                                                          *)
(***************************************************************************)
\* new_command.txt holds a text saved after cycle c read the file
\* (read_mtime: the file's timestamp when process_new_command read it)
PendingWrite(c) ==
    /\ c.file_triggered
    /\ new_command_file.exists
    /\ new_command_file.by = "user"
    /\ new_command_file.mtime > c.read_mtime

\* mutant: a text saved during the cycle is left in the file
Truncate_spares_pending(c) ==
    IF PendingWrite(c)
    THEN UNCHANGED <<new_command_file, now>>
    ELSE /\ new_command_file' = CmdFile(<<>>, now + 1, "agent")
         /\ now' = now + 1

\* process_new_command lines 560-563: open(NEW_COMMAND_FILE, 'w'); write("")
Truncate(c) ==
    /\ new_command_file' = CmdFile(<<>>, now + 1, "agent")
    /\ now' = now + 1

\* The cycle c is over.  A file-triggered cycle that returned is followed by the
\* truncation; an exception leaves process_new_command before it.  In watch mode
\* the loop's "except FileNotFoundError" (line 626) catches that exception
\* whatever raised it and breaks; any other exception ends the process.
\* lost (kept for the properties only): the command, stripped, that was saved
\* into new_command.txt during the cycle and is erased by the truncation.
Finish(c) ==
    \E d \in {c} :   \* the record c, worked out once
        /\ cyc' = [d EXCEPT !.read_mtime = 0,
                            !.lost = IF d.outcome # "Raised" /\ PendingWrite(d)
                                     THEN strip(new_command_file.text) ELSE <<>>]
        /\ shortcuts' = JNull
        /\ formatted_command' = JNull
        /\ IF d.outcome = "Raised"
           THEN /\ pc' = IF mode = "watch" /\ d.exc = "FileNotFoundError"
                         THEN "exited" ELSE "crashed"
                /\ UNCHANGED <<new_command_file, now>>
           ELSE IF d.file_triggered
           THEN /\ Truncate(d)
                /\ pc' = IF mode = "watch" THEN "poll" ELSE "exited"
           ELSE /\ pc' = "exited"
                /\ UNCHANGED <<new_command_file, now>>

\* the part of a cycle up to a prompt or to its end
Advance(res, c) ==
    \E r \in {res} :   \* the result res, worked out once
        LET c2 == [c EXCEPT !.formatter = r.formatter,
                            !.cand = r.formatted_command]
        IN  IF r.next \in {"confirm_category", "confirm_command"}
            THEN /\ pc' = r.next
                 /\ cyc' = [c2 EXCEPT !.prompts = @ + 1,
                                      !.approval_prompt = r.next = "confirm_command"]
                 /\ shortcuts' = r.shortcuts
                 /\ formatted_command' = r.formatted_command
                 /\ UNCHANGED <<new_command_file, now>>
            ELSE Finish([c2 EXCEPT !.outcome = r.outcome, !.exc = r.exc,
                                   !.raised_in = r.raised_in])

\* what is kept of a cycle once the next one starts: its outcome, whether a
\* prompt was declined, and the category and command of its candidate
Kept(c) ==
    LET category == dict_get(c.cand, "category")
    IN  [NoCycle EXCEPT
            !.outcome = c.outcome,
            !.declined = c.declined,
            !.cand = IF c.cand.t = "obj" /\ category.t = "str" /\ category.s # ""
                     THEN JObj(<<Member("category", category),
                                 Member("command", dict_get(c.cand, "command"))>>)
                     ELSE JNull]

\* _process_command_logic(raw_command) is entered; input is the text the
\* command was taken from: the content of new_command.txt or the typed line
Begin(input, raw_command, file_triggered) ==
    \E llm \in LLMOutcomes :
        /\ prev' = Kept(cyc)
        /\ Advance(CycleBegin(raw_command, shortcuts_file, llm),
                   [NoCycle EXCEPT !.n = cyc.n + 1, !.file_triggered = file_triggered,
                                   !.input = input,
                                   !.read_mtime = IF file_triggered
                                                  THEN new_command_file.mtime ELSE 0,
                                   !.outcome = "running", !.store_before = shortcuts_file,
                                   !.remote_before = remote])
        /\ UNCHANGED <<shortcuts_file, remote>>

(***************************************************************************)
(* Actions                                                                 *)
(***************************************************************************)
\* mutant: the CLI command goes to its mode's work without the startup pull
Startup_without_pull ==
    /\ pc = "start"
    /\ pc' = CASE mode = "watch" -> "watch_init"
               [] mode = "process" -> "process"
               [] mode = "manual" -> "manual"
    /\ UNCHANGED <<mode, shortcuts_file, new_command_file, now, last_modified, remote,
                   shortcuts, formatted_command, cyc, prev, call, pull, push, peer_file>>

\* agent.sync_cloud_on_startup, first statement of watch(), process(), manual()
Startup ==
    /\ pc = "start"
    /\ \E get \in GetOutcomes :
          /\ shortcuts_file' = sync_cloud_to_local(shortcuts_file, remote, get)
          /\ pull' = [done |-> TRUE, by |-> "A", at |-> now, get |-> get,
                      changed |-> shortcuts_file' # shortcuts_file, record |-> remote]
    /\ pc' = CASE mode = "watch" -> "watch_init"
               [] mode = "process" -> "process"
               [] mode = "manual" -> "manual"
    /\ UNCHANGED <<mode, new_command_file, now, last_modified, remote, shortcuts,
                   formatted_command, cyc, prev, call, push, peer_file>>

\* agent.watch_for_new_command lines 581-599: the first getmtime
WatchInit ==
    /\ pc = "watch_init"
    /\ IF new_command_file.exists
       THEN /\ last_modified' = new_command_file.mtime
            /\ pc' = "poll"
       ELSE /\ pc' = "exited"
            /\ UNCHANGED last_modified
    /\ UNCHANGED <<mode, shortcuts_file, new_command_file, now, remote, shortcuts,
                   formatted_command, cyc, prev, call, pull, push, peer_file>>

\* mutant: the watcher creates the missing file and goes on polling
PollMissing_recreates ==
    /\ pc = "poll"
    /\ ~new_command_file.exists
    /\ new_command_file' = [exists |-> TRUE, text |-> <<>>, mtime |-> now, by |-> "agent"]
    /\ UNCHANGED <<mode, pc, shortcuts_file, now, last_modified, remote,
                   shortcuts, formatted_command, cyc, prev, call, pull, push, peer_file>>

\* one iteration of the loop, lines 605-632, the file being gone: break
PollMissing ==
    /\ pc = "poll"
    /\ ~new_command_file.exists
    /\ pc' = "exited"
    /\ UNCHANGED <<mode, shortcuts_file, new_command_file, now, last_modified, remote,
                   shortcuts, formatted_command, cyc, prev, call, pull, push, peer_file>>

\* one iteration of the loop, the timestamp being the one last seen
PollUnchanged ==
    /\ pc = "poll"
    /\ new_command_file.exists
    /\ new_command_file.mtime = last_modified
    /\ UNCHANGED vars

\* one iteration of the loop, the timestamp having changed: process_new_command
PollChanged ==
    /\ pc = "poll"
    /\ new_command_file.exists
    /\ new_command_file.mtime # last_modified
    /\ now < MaxTime
    /\ last_modified' = new_command_file.mtime
    /\ Begin(new_command_file.text, strip(new_command_file.text), TRUE)
    /\ UNCHANGED <<mode, call, pull, push, peer_file>>

\* process(): process_new_command, once
ProcessOnce ==
    /\ pc = "process"
    /\ IF new_command_file.exists
       THEN Begin(new_command_file.text, strip(new_command_file.text), TRUE)
       ELSE \* open(NEW_COMMAND_FILE, 'r') raises FileNotFoundError
            /\ pc' = "crashed"
            /\ UNCHANGED <<shortcuts_file, new_command_file, now, remote, shortcuts,
                           formatted_command, cyc, prev>>
    /\ UNCHANGED <<mode, last_modified, call, pull, push, peer_file>>

\* manual(): click.prompt, then _process_command_logic
ManualEntry ==
    /\ pc = "manual"
    /\ \E raw \in ManualTexts : Begin(raw, raw, FALSE)
    /\ UNCHANGED <<mode, last_modified, call, pull, push, peer_file>>

\* the user answers "Do you want to create it?"
AnswerCategory ==
    /\ pc = "confirm_category"
    /\ \E answer \in BOOLEAN :
          Advance(AfterCategoryAnswer(answer, shortcuts, formatted_command),
                  [cyc EXCEPT !.declined = ~answer,
                              !.category_answer = IF answer THEN "yes" ELSE "no"])
    /\ UNCHANGED <<mode, shortcuts_file, last_modified, remote, prev, call, pull, push, peer_file>>

\* the user answers "Do you approve this command?"
AnswerApproval ==
    /\ pc = "confirm_command"
    /\ \E answer \in BOOLEAN, validator_runs \in BOOLEAN, put_ok \in BOOLEAN :
          \E a \in {AfterApproval(answer, shortcuts, formatted_command, shortcuts_file,
                                   remote, validator_runs, put_ok)} :
              /\ shortcuts_file' = a.file
              /\ remote' = a.record
              /\ Finish([cyc EXCEPT !.outcome = a.outcome, !.declined = ~answer,
                                    !.pushed = a.pushed, !.wrote = a.wrote,
                                    !.put_ok = a.pushed /\ put_ok,
                                    !.log = CommitLog(a.outcome),
                                    !.echo = CommitEcho(a.outcome, put_ok)])
    /\ UNCHANGED <<mode, last_modified, prev, call, pull, push, peer_file>>

\* somebody saves a raw command into new_command.txt (manual() never opens
\* the file, so in that mode the file is left out of the picture)
UserWrites ==
    /\ mode # "manual"
    /\ pc \notin Terminated
    /\ now < MaxTime
    /\ \E t \in UserTexts : new_command_file' = CmdFile(t, now + 1, "user")
    /\ now' = now + 1
    /\ UNCHANGED <<mode, pc, shortcuts_file, last_modified, remote, shortcuts,
                   formatted_command, cyc, prev, call, pull, push, peer_file>>

\* somebody deletes new_command.txt
UserDeletes ==
    /\ mode # "manual"
    /\ pc \notin Terminated
    /\ new_command_file.exists
    /\ new_command_file' = NoCmdFile
    /\ UNCHANGED <<mode, pc, shortcuts_file, now, last_modified, remote, shortcuts,
                   formatted_command, cyc, prev, call, pull, push, peer_file>>

Next ==
    \/ Startup
    \/ WatchInit
    \/ PollMissing
    \/ PollUnchanged
    \/ PollChanged
    \/ ProcessOnce
    \/ ManualEntry
    \/ AnswerCategory
    \/ AnswerApproval
    \/ UserWrites
    \/ UserDeletes

Spec == Init /\ [][Next]_vars

(***************************************************************************)
(* The Safe Writer alone: one call of update_shortcuts_safely on any file  *)
(* and any content of at most MaxLen characters.                           *)
(***************************************************************************)
WriterChars == {P("a"), NL, FF}
WriterTexts == UNION {[1..n -> WriterChars] : n \in 0..MaxLen}

InitWriter ==
    /\ mode = "none"
    /\ pc = "writer"
    /\ shortcuts_file \in {NoFile} \cup {File(t) : t \in WriterTexts}
    /\ new_command_file = NoCmdFile
    /\ now = 0
    /\ last_modified = 0
    /\ remote = JNull
    /\ shortcuts = JNull
    /\ formatted_command = JNull
    /\ cyc = NoCycle
    /\ prev = NoCycle
    /\ pull = NoPull
    /\ push = NoPush
    /\ peer_file = NoFile
    /\ \E t \in WriterTexts :
          call = [state |-> "ready", content |-> t, before |-> shortcuts_file, ret |-> FALSE]

CallWriter ==
    /\ call.state = "ready"
    /\ LET w == update_shortcuts_safely(shortcuts_file, call.content)
       IN  /\ shortcuts_file' = w.file
           /\ call' = [call EXCEPT !.state = "done", !.ret = w.ok]
    /\ UNCHANGED <<mode, pc, new_command_file, now, last_modified, remote, shortcuts,
                   formatted_command, cyc, prev, pull, push, peer_file>>

NextWriter == CallWriter

SpecWriter == InitWriter /\ [][NextWriter]_vars

(***************************************************************************)
(* The JSON Store Validator alone: up to MaxCalls calls of validate_json   *)
(* on one path, the file being any text of at most MaxLen characters.      *)
(***************************************************************************)
ValidatorChars == {P("{"), P("}"), P("["), P("]"), P(":"), S("a"), NL}
ValidatorTexts == UNION {[1..n -> ValidatorChars] : n \in 0..MaxLen}

InitValidator ==
    /\ mode = "none"
    /\ pc = "validator"
    /\ shortcuts_file \in {NoFile} \cup {File(t) : t \in ValidatorTexts}
    /\ new_command_file = NoCmdFile
    /\ now = 0
    /\ last_modified = 0
    /\ remote = JNull
    /\ shortcuts = JNull
    /\ formatted_command = JNull
    /\ cyc = NoCycle
    /\ prev = NoCycle
    /\ pull = NoPull
    /\ push = NoPush
    /\ peer_file = NoFile
    /\ \E readable \in BOOLEAN :
          call = [state |-> "validator", readable |-> readable, before |-> shortcuts_file,
                  rets |-> <<>>]

\* mutant: a file that does not parse is replaced by an empty store
CallValidator_repairs ==
    /\ call.state = "validator"
    /\ Len(call.rets) < MaxCalls
    /\ LET r == validate_json_pair(shortcuts_file, call.readable)
       IN  /\ call' = [call EXCEPT !.rets = Append(@, r)]
           /\ shortcuts_file' = IF r.message = "Invalid JSON"
                                THEN File(json_dumps(StoreEmpty)) ELSE shortcuts_file
    /\ UNCHANGED <<mode, pc, new_command_file, now, last_modified, remote, shortcuts,
                   formatted_command, cyc, prev, pull, push, peer_file>>

\* one call of validate_json(file_path): the file is opened for reading only
CallValidator ==
    /\ call.state = "validator"
    /\ Len(call.rets) < MaxCalls
    /\ call' = [call EXCEPT
                   !.rets = Append(@, validate_json_pair(shortcuts_file, call.readable))]
    /\ UNCHANGED <<mode, pc, shortcuts_file, new_command_file, now, last_modified, remote,
                   shortcuts, formatted_command, cyc, prev, pull, push, peer_file>>

NextValidator == CallValidator

SpecValidator == InitValidator /\ [][NextValidator]_vars

(***************************************************************************)
(* The parse step alone, agent.py lines 281-283: one response of the LLM,  *)
(* a JSON document in one of several wrappers, is parsed.                  *)
(***************************************************************************)
ParseDocs ==
    { Candidate(cat, cmd) : cat \in {"GIT", "NEW", ""}, cmd \in {"c1", "c2"} }
    \cup { CandidateNoCategory(cmd) : cmd \in {"c1", "c2"} }
    \cup { CandidateListCategory("c1"), JArr(<<JStr("c1")>>), JStr("c1"), JNull,
           StoreEmpty, StoreGit }

ClosedFences == {"fenced", "fenced_tight", "fenced_padded"}
OpenFences == {"unclosed", "unclosed_newline"}
ParseWrappers == {"plain", "padded"} \cup ClosedFences \cup OpenFences

\* the response that holds text t in wrapper w
Wrap(w, t) ==
    CASE w = "plain" -> t
      [] w = "padded" -> <<SP>> \o t \o <<NL>>
      [] w = "fenced" -> Fenced(t)
      [] w = "fenced_tight" -> FenceOpen \o t \o FenceClose
      [] w = "fenced_padded" -> <<NL>> \o Fenced(t) \o <<NL>>
      [] w = "unclosed" -> FenceOpen \o <<NL>> \o t
      [] w = "unclosed_newline" -> FenceOpen \o <<NL>> \o t \o <<NL>>

InitParse ==
    /\ mode = "none"
    /\ pc = "parse"
    /\ shortcuts_file = NoFile
    /\ new_command_file = NoCmdFile
    /\ now = 0
    /\ last_modified = 0
    /\ remote = JNull
    /\ shortcuts = JNull
    /\ formatted_command = JNull
    /\ cyc = NoCycle
    /\ prev = NoCycle
    /\ pull = NoPull
    /\ push = NoPush
    /\ peer_file = NoFile
    /\ \E doc \in ParseDocs, w \in ParseWrappers :
          call = [state |-> "parse", doc |-> doc, wrapper |-> w,
                  content |-> Wrap(w, json_dumps(doc)), ok |-> FALSE]

\* lines 281-283 on the response call.content
CallParse ==
    /\ pc = "parse"
    /\ LET r == ParseResponse(call.content)
       IN  /\ call' = [call EXCEPT !.state = "parsed", !.ok = r.ok]
           /\ formatted_command' = r.val
    /\ pc' = "parsed"
    /\ UNCHANGED <<mode, shortcuts_file, new_command_file, now, last_modified, remote,
                   shortcuts, cyc, prev, pull, push, peer_file>>

NextParse == CallParse

SpecParse == InitParse /\ [][NextParse]_vars

(***************************************************************************)
(* The Remote Sync Adapter alone: two machines, each with its own          *)
(* shortcuts.json, run sync_cloud_to_local.py and sync_local_to_cloud.py   *)
(* against one remote record, in any order, MaxSync runs in all.           *)
(***************************************************************************)
Machines == {"A", "B"}
SyncRecords == {JNull, StoreEmpty, StoreGit, StoreTwo}

\* shortcuts.json of machine m
FileOf(m) == IF m = "A" THEN shortcuts_file ELSE peer_file

InitSync ==
    /\ mode = "none"
    /\ pc = "sync"
    /\ shortcuts_file \in InitStoreFiles
    /\ peer_file \in InitStoreFiles
    /\ remote \in SyncRecords
    /\ new_command_file = NoCmdFile
    /\ now = 0
    /\ last_modified = 0
    /\ shortcuts = JNull
    /\ formatted_command = JNull
    /\ cyc = NoCycle
    /\ prev = NoCycle
    /\ call = NoCall
    /\ pull = NoPull
    /\ push = NoPush

\* machine m runs sync_cloud_to_local.py (call.before, kept for the properties
\* only: the shortcuts.json the run found)
RunPull(m) ==
    /\ now < MaxSync
    /\ \E get \in GetOutcomes :
          LET f == sync_cloud_to_local(FileOf(m), remote, get)
          IN  /\ shortcuts_file' = IF m = "A" THEN f ELSE shortcuts_file
              /\ peer_file' = IF m = "B" THEN f ELSE peer_file
              /\ pull' = [done |-> TRUE, by |-> m, at |-> now, get |-> get,
                          changed |-> f # FileOf(m), record |-> remote]
    /\ call' = [NoCall EXCEPT !.state = "pull", !.before = FileOf(m)]
    /\ now' = now + 1
    /\ UNCHANGED <<mode, pc, new_command_file, last_modified, remote, shortcuts,
                   formatted_command, cyc, prev, push>>

\* machine m runs sync_local_to_cloud.py
RunPush(m) ==
    /\ now < MaxSync
    /\ \E put_ok \in BOOLEAN :
          /\ remote' = sync_local_to_cloud(FileOf(m), remote, put_ok)
          /\ push' = [done |-> TRUE, by |-> m, at |-> now, put_ok |-> put_ok,
                      file |-> FileOf(m), remote_before |-> remote,
                      pushers |-> IF put_ok /\ validate_json(FileOf(m))
                                  THEN push.pushers \cup {m} ELSE push.pushers]
    /\ now' = now + 1
    /\ UNCHANGED <<mode, pc, shortcuts_file, peer_file, new_command_file, last_modified,
                   shortcuts, formatted_command, cyc, prev, call, pull>>

\* machine A runs one cycle of the workflow whose candidate, for a category of
\* its store and not a duplicate, the user approves: lines 399-531; the push of
\* line 528 is a run of sync_local_to_cloud.py like any other
RunCycle ==
    /\ now < MaxSync
    /\ validate_json(shortcuts_file)
    /\ \E cmd \in {"c1", "c2"}, validator_runs \in BOOLEAN, put_ok \in BOOLEAN :
          LET fc == Candidate("GIT", cmd)
              sc == json_loads(shortcuts_file.text).val
              r == IF sc.t = "obj" /\ dict_has(sc, "GIT")
                   THEN DuplicateCheck(sc, fc) ELSE Return("none", sc, fc, "text")
              a == AfterApproval(TRUE, sc, fc, shortcuts_file, remote, validator_runs, put_ok)
          IN  /\ r.next = "confirm_command"
              /\ shortcuts_file' = a.file
              /\ remote' = a.record
              /\ cyc' = [NoCycle EXCEPT !.n = cyc.n + 1, !.outcome = a.outcome,
                                        !.formatter = "text", !.cand = fc,
                                        !.prompts = 1, !.approval_prompt = TRUE,
                                        !.wrote = a.wrote, !.pushed = a.pushed,
                                        !.put_ok = a.pushed /\ put_ok]
              /\ push' = IF a.pushed
                         THEN [done |-> TRUE, by |-> "A", at |-> now, put_ok |-> put_ok,
                               file |-> a.file, remote_before |-> remote,
                               pushers |-> IF put_ok THEN push.pushers \cup {"A"}
                                           ELSE push.pushers]
                         ELSE push
    /\ now' = now + 1
    /\ UNCHANGED <<mode, pc, peer_file, new_command_file, last_modified, shortcuts,
                   formatted_command, prev, call, pull>>

NextSync ==
    \/ \E m \in Machines : RunPull(m)
    \/ \E m \in Machines : RunPush(m)

SpecSync == InitSync /\ [][NextSync]_vars

(***************************************************************************)
(* Machine A over several runs of the CLI: cycles that commit locally, the *)
(* startup pull of the next run, and machine B replacing the remote record *)
(* in between.                                                             *)
(***************************************************************************)
NextRestart ==
    \/ RunCycle
    \/ RunPull("A")
    \/ RunPush("B")

SpecRestart == InitSync /\ [][NextRestart]_vars

(***************************************************************************)
(* Properties                                                              *)
(***************************************************************************)
\* the decoded store of a file (None when it is missing or not JSON)
StoreOf(file) == IF file.exists THEN json_loads(file.text).val ELSE JNull

\* a cycle is over
Ended(c) == c.outcome \notin {"none", "running"}

\* C1, as claimed: a cycle that ends Aborted, by any abort path, leaves the
\* content of shortcuts.json as it was when the cycle started.
C1_AbortLeavesStore ==
    cyc.outcome \in Aborted => shortcuts_file = cyc.store_before

\* C1, amended: a cycle that ends Aborted by any abort path but the post-write
\* validation failure leaves the content of shortcuts.json as it was when the
\* cycle started; after a post-write validation failure the file holds what
\* the Safe Writer wrote.
C1_AbortLeavesStoreUnlessWritten ==
    /\ cyc.outcome \in Aborted \ {"PostWriteCorruption"} =>
          /\ shortcuts_file = cyc.store_before
          /\ ~cyc.wrote
    /\ cyc.outcome = "PostWriteCorruption" => cyc.wrote

\* C1, witness: the Safe Writer refused the write of an approved candidate
C1_Witness ==
    /\ cyc.outcome = "WriteGuardViolation"
    /\ cyc.approval_prompt
    /\ shortcuts_file = cyc.store_before

\* C2, as claimed: when a file-triggered cycle is over, whatever its outcome,
\* new_command.txt is empty.
C2_FileEmptyAfterCycle ==
    [][(cyc' # cyc /\ cyc'.file_triggered /\ Ended(cyc'))
          => (new_command_file'.exists /\ new_command_file'.text = <<>>)]_vars

CatOf(c) == dict_get(c.cand, "category")
CmdOf(c) == dict_get(c.cand, "command")
\* cycle c got a candidate with a usable category from the LLM
HasCandidate(c) == c.cand.t = "obj" /\ CatOf(c).t = "str" /\ CatOf(c).s # ""

\* number of entries of store[cat] whose command is cmd
CountCommand(store, cat, cmd) ==
    IF store.t = "obj" /\ dict_has(store, cat)
    THEN Cardinality({i \in 1..Len(dict_get(store, cat).items) :
                         dict_get(dict_get(store, cat).items[i], "command") = cmd})
    ELSE 0

\* two cycles in sequence got the same category and command from the LLM, and
\* the user declined no prompt
TwoSame ==
    /\ Ended(prev) /\ Ended(cyc)
    /\ HasCandidate(prev) /\ HasCandidate(cyc)
    /\ CatOf(prev) = CatOf(cyc) /\ CmdOf(prev) = CmdOf(cyc)
    /\ ~prev.declined /\ ~cyc.declined

DuplicateAborted ==
    /\ CountCommand(StoreOf(shortcuts_file), CatOf(cyc).s, CmdOf(cyc)) = 1
    /\ cyc.outcome = "DuplicateCommand"
    /\ ~cyc.approval_prompt
    /\ shortcuts_file = cyc.store_before

\* C4, as claimed: after two cycles in sequence with the same category and
\* command, every prompt confirmed, the category holds exactly one entry with
\* that command, and the second cycle ended Aborted (DuplicateCommand) before
\* the approval prompt without changing the store.
C4_DuplicateGuard == TwoSame => DuplicateAborted

\* C4, amended: the same, provided the Safe Writer did not refuse the write of
\* the first cycle (shrink guard).
C4_DuplicateGuardUnlessRefused ==
    (TwoSame /\ prev.outcome # "WriteGuardViolation") => DuplicateAborted

\* C4, witness: the first cycle committed the entry, the second was a duplicate
C4_Witness ==
    TwoSame /\ prev.outcome = "Committed" /\ cyc.outcome = "DuplicateCommand"

\* the entries of every category have pairwise distinct commands
UniqueCommands(store) ==
    store.t = "obj" =>
        \A m \in 1..Len(store.items) :
            LET entries == store.items[m].v.items
            IN  \A i, j \in 1..Len(entries) :
                    dict_get(entries[i], "command") = dict_get(entries[j], "command")
                        => i = j

\* C5: from a store whose entries have pairwise distinct commands per category,
\* every sequence of cycles leaves a store whose entries have pairwise distinct
\* commands per category.
C5_StoreUnique == UniqueCommands(StoreOf(shortcuts_file))

\* C5, witness: two cycles in sequence committed an entry to the same category
C5_Witness ==
    /\ prev.outcome = "Committed" /\ cyc.outcome = "Committed"
    /\ CatOf(prev) = CatOf(cyc)

\* after is before with entry appended to category cat and nothing else changed
AppendedOne(before, after, cat, entry) ==
    /\ after.t = "obj"
    /\ Len(after.items) = Len(before.items)
    /\ \A i \in 1..Len(before.items) :
          /\ after.items[i].k = before.items[i].k
          /\ after.items[i].v.items =
                IF before.items[i].k = cat
                THEN Append(before.items[i].v.items, entry)
                ELSE before.items[i].v.items

\* a candidate for a category of the store, its command not yet there, approved
HappyPath ==
    /\ Ended(cyc)
    /\ HasCandidate(cyc)
    /\ StoreOf(cyc.store_before).t = "obj"
    /\ dict_has(StoreOf(cyc.store_before), CatOf(cyc).s)
    /\ CountCommand(StoreOf(cyc.store_before), CatOf(cyc).s, CmdOf(cyc)) = 0
    /\ cyc.approval_prompt /\ ~cyc.declined

OneEntryAppended ==
    /\ AppendedOne(StoreOf(cyc.store_before), StoreOf(shortcuts_file), CatOf(cyc).s,
                   JObj(SelectSeq(cyc.cand.items, LAMBDA m : m.k # "category")))
    /\ get_line_count(shortcuts_file) >= get_line_count(cyc.store_before)

\* C6, as claimed: on the happy path the cycle appends exactly one entry to the
\* category, changes nothing else, and the file has no fewer lines than before.
C6_HappyPath == HappyPath => OneEntryAppended

\* C6, amended: the same, provided the Safe Writer accepts the write (the
\* serialized store has no fewer lines than the file on disk).
C6_HappyPathUnlessRefused ==
    (HappyPath /\ cyc.outcome # "WriteGuardViolation") => OneEntryAppended

\* C6, witness: a committed happy path
C6_Witness == HappyPath /\ cyc.outcome = "Committed" /\ cyc.pushed

\* C7, as claimed: in watch mode a cycle starts only on a modification made
\* from outside: one modification, one cycle.
C7_OneCyclePerChange ==
    [][(mode = "watch" /\ cyc'.n = cyc.n + 1) => new_command_file.by = "user"]_vars

\* C8, as claimed: the watch loop ends only when new_command.txt is missing.
C8_WatchEndsOnlyOnMissingFile ==
    [][(mode = "watch" /\ pc \notin Terminated /\ pc' \in Terminated)
          => ~new_command_file.exists]_vars

\* C9: when new_command.txt is missing at the first observation or at a poll,
\* the watcher's next step ends the watch: no cycle is run, the file is not
\* created by the agent, and nothing follows the end.
C9_MissingFileEndsWatch ==
    /\ [][(mode = "watch" /\ pc \in {"watch_init", "poll"} /\ ~new_command_file.exists)
            => \/ /\ pc' = "exited"
                  /\ cyc' = cyc
                  /\ new_command_file' = new_command_file
               \/ /\ pc' = pc
                  /\ cyc' = cyc
                  /\ new_command_file'.exists => new_command_file'.by = "user"]_vars
    /\ [][(mode = "watch" /\ pc = "exited")
            => (pc' = pc /\ cyc' = cyc /\ new_command_file' = new_command_file)]_vars

\* C9, witness: the file disappeared after a cycle and the watch ended
C9_Witness ==
    /\ mode = "watch" /\ pc = "exited"
    /\ ~new_command_file.exists
    /\ cyc.n >= 1 /\ cyc.outcome # "Raised"

\* C10, as claimed: no failure of format_command_with_llm is raised; each is a
\* None result, and the cycle ends Aborted (FormatterFailure) with no prompt,
\* no write and no push.
C10_FormatterFailureIsNone ==
    /\ cyc.raised_in # "format_command_with_llm"
    /\ (Ended(cyc) /\ cyc.formatter = "none") =>
          /\ cyc.outcome = "FormatterFailure"
          /\ cyc.prompts = 0 /\ ~cyc.wrote /\ ~cyc.pushed
          /\ shortcuts_file = cyc.store_before
          /\ remote = cyc.remote_before

\* the LLM's response in cycle c is not a candidate object: it is not JSON, or
\* JSON but no object, or an object whose "category" is not a string
NotACandidate(c) ==
    /\ c.formatter = "text"
    /\ \/ c.cand.t # "obj"
       \/ dict_has(c.cand, "category") /\ CatOf(c).t # "str"

\* C11, as claimed: a cycle whose LLM response is not a candidate object ends
\* Aborted (MalformedLLMOutput) with the store unchanged; it does not fail
\* with an unhandled error.
C11_MalformedResponseAborts ==
    (Ended(cyc) /\ NotACandidate(cyc)) =>
        /\ cyc.outcome = "MalformedLLMOutput"
        /\ shortcuts_file = cyc.store_before

\* C12: within a cycle the store file is not written before the candidate is
\* approved: at both prompts the file is what it was at the start of the
\* cycle, the file changes only in the step that follows an approval (or in
\* the startup pull), and after a declined candidate the file is unchanged,
\* so a category confirmed at the first prompt is not on disk.
C12_NoWriteBeforeApproval ==
    /\ [](pc \in {"confirm_category", "confirm_command"}
            => shortcuts_file = cyc.store_before)
    /\ [](cyc.outcome \in {"UserRejectedCategory", "UserRejectedCandidate"} =>
            /\ shortcuts_file = cyc.store_before
            /\ (cyc.prompts = 2 /\ StoreOf(shortcuts_file).t = "obj")
                  => ~dict_has(StoreOf(shortcuts_file), CatOf(cyc).s))
    /\ [][shortcuts_file' # shortcuts_file
            => \/ pc = "start"
               \/ pc = "confirm_command" /\ ~cyc'.declined]_vars

\* C12, witness: a new category was confirmed, the candidate then declined
C12_Witness ==
    /\ cyc.outcome = "UserRejectedCandidate"
    /\ cyc.prompts = 2
    /\ cyc.declined
    /\ StoreOf(shortcuts_file).t = "obj"
    /\ ~dict_has(StoreOf(shortcuts_file), CatOf(cyc).s)

\* C13, as claimed: after a pull whose request succeeded while the remote held
\* a record, whatever the record, the puller's local store equals the record.
C13_PullOverwritesLocal ==
    (pull.done /\ pull.get = "ok" /\ pull.record # JNull)
        => StoreOf(FileOf(pull.by)) = pull.record

\* C14: a pull that fails (the request fails, the payload cannot be decoded,
\* or the response holds no record) leaves shortcuts.json as it was, raises
\* nothing, and the CLI command goes on to its mode's work.
C14_PullFailureLeavesLocal ==
    [][(pull' # pull /\ (pull'.get # "ok" \/ pull'.record = JNull))
          => /\ shortcuts_file' = shortcuts_file
             /\ pc' \in {"watch_init", "process", "manual"}]_vars

\* C14, witness: after a failed pull the command went on into a cycle, the
\* store file being what it was before the pull
C14_Witness ==
    /\ pull.done
    /\ pull.get # "ok"
    /\ pull.record # JNull
    /\ ~pull.changed
    /\ pc = "confirm_command"
    /\ StoreOf(shortcuts_file) # pull.record

\* C15: a push replaces the whole remote record, the last writer wins: after a
\* run of sync_local_to_cloud whose upload succeeded, the remote record is the
\* pusher's local store as it was at the push, whatever the record was before
\* and whichever machine pushed before; a run that finds the local file
\* missing or not valid JSON leaves the remote record as it was.
C15_LastWriterWins ==
    /\ (push.done /\ push.put_ok /\ validate_json(push.file))
          => remote = StoreOf(push.file)
    /\ (push.done /\ ~validate_json(push.file))
          => remote = push.remote_before

\* C15, witness: both machines have pushed, their stores differ, and the
\* remote record is the store of the one that pushed last, not the other's
C15_Witness ==
    /\ push.done /\ push.put_ok
    /\ push.pushers = Machines
    /\ push.by = "B"
    /\ push.remote_before = StoreOf(FileOf("A"))
    /\ StoreOf(FileOf("A")) # StoreOf(FileOf("B"))
    /\ remote = StoreOf(FileOf("B"))

\* machine push.by ran the pull and then, as the next run, the push
PullThenPush ==
    /\ pull.done /\ push.done
    /\ push.by = pull.by
    /\ push.at = pull.at + 1

\* C16, as claimed: a pull immediately followed by a push, both requests
\* succeeding, leaves the remote record what it was before the pull, for
\* every remote record and every local store the machine had before.
C16_PullPushRoundTrip ==
    (PullThenPush /\ pull.get = "ok" /\ pull.record # JNull /\ push.put_ok)
        => remote = pull.record

\* the last entry of the candidate's category in the store of file is the
\* candidate of cycle c without its "category" key
HoldsNewEntry(file, c) ==
    /\ StoreOf(file).t = "obj"
    /\ dict_has(StoreOf(file), CatOf(c).s)
    /\ LET entries == dict_get(StoreOf(file), CatOf(c).s).items
       IN  /\ entries # <<>>
           /\ entries[Len(entries)] =
                 JObj(SelectSeq(c.cand.items, LAMBDA m : m.k # "category"))

\* C17: when the push of step 9 fails after the write and the validation
\* succeeded, the local store keeps the appended entry, the remote record is
\* what it was, and the cycle ends normally (Committed), nothing being raised.
C17_LocalFirstCommit ==
    (cyc.pushed /\ ~cyc.put_ok) =>
        /\ cyc.outcome = "Committed"
        /\ pc # "crashed"
        /\ shortcuts_file # cyc.store_before
        /\ HoldsNewEntry(shortcuts_file, cyc)
        /\ remote = cyc.remote_before

\* C17, witness: the push failed, the local store holds an entry that the
\* remote record lacks
C17_Witness ==
    /\ cyc.pushed /\ ~cyc.put_ok
    /\ cyc.outcome = "Committed"
    /\ HoldsNewEntry(shortcuts_file, cyc)
    /\ remote # StoreOf(shortcuts_file)

upper(s) == IF s = "git" THEN "GIT" ELSE s

\* every key of the store is upper case, no two keys differ in case only
UpperCaseKeys(store) ==
    store.t = "obj" =>
        /\ \A i \in 1..Len(store.items) : upper(store.items[i].k) = store.items[i].k
        /\ \A i, j \in 1..Len(store.items) :
              upper(store.items[i].k) = upper(store.items[j].k) => i = j

\* C19, as claimed: from a store whose category keys are all upper case, every
\* sequence of cycles leaves a store whose category keys are all upper case,
\* so no two categories differ in letter case only.
C19_CategoryKeysUpperCase == UpperCaseKeys(StoreOf(shortcuts_file))

\* the keys of a stored entry
EntryKeys == {"command", "description", "usage example"}
KeysOf(obj) == {obj.items[i].k : i \in 1..Len(obj.items)}

\* C20, as claimed: the entry a cycle appends to the store is an object with
\* exactly the keys command, description and usage example.
C20_AppendedEntryKeys ==
    (cyc.wrote /\ HoldsNewEntry(shortcuts_file, cyc)) =>
        LET entries == dict_get(StoreOf(shortcuts_file), CatOf(cyc).s).items
            entry == entries[Len(entries)]
        IN  /\ entry.t = "obj"
            /\ KeysOf(entry) = EntryKeys
            /\ Len(entry.items) = Cardinality(EntryKeys)

C22_ValidatorTotal ==
    call.state = "validator" =>
        \A i \in 1..Len(call.rets) :
            LET r == call.rets[i]
                parses == json_loads(call.before.text).ok
            IN  /\ r.flag \in BOOLEAN
                /\ r.flag <=> (call.before.exists /\ call.readable /\ parses)
                /\ r.flag => r.message = "JSON is valid."
                /\ ~call.before.exists => r.message = "File not found"
                /\ (call.before.exists /\ ~call.readable)
                      => r.message = "An unexpected error occurred"
                /\ (call.before.exists /\ call.readable /\ ~parses)
                      => r.message = "Invalid JSON"

\* C22, witness: a call on a file that exists but cannot be read
C22_Witness ==
    /\ call.state = "validator"
    /\ Len(call.rets) >= 1
    /\ call.before.exists /\ ~call.readable
    /\ ~call.rets[1].flag
    /\ call.rets[1].message = "An unexpected error occurred"

\* C23: a cycle pushes only after the user approved the candidate, the Safe
\* Writer wrote the file and the validator reported it valid, in this order;
\* the remote record changes in no other step, and a cycle that ends Aborted
\* has not pushed.
C23_PushAfterCommitSteps ==
    /\ [](cyc.pushed =>
            /\ cyc.approval_prompt /\ ~cyc.declined
            /\ cyc.wrote
            /\ validate_json(shortcuts_file)
            /\ cyc.outcome = "Committed")
    /\ [](cyc.outcome \in Aborted => (~cyc.pushed /\ remote = cyc.remote_before))
    /\ [][remote' # remote => (pc = "confirm_command" /\ cyc'.pushed)]_vars

\* C23, witness: a push that changed the remote record
C23_Witness ==
    /\ cyc.pushed /\ cyc.put_ok
    /\ cyc.outcome = "Committed"
    /\ remote # cyc.remote_before
    /\ remote = StoreOf(shortcuts_file)

\* C24, as claimed: after a post-write validation failure the written file is
\* kept, no push is made, and the line-count delta of the write is reported.
C24_PostWriteCorruptionReported ==
    cyc.outcome = "PostWriteCorruption" =>
        /\ cyc.wrote
        /\ HoldsNewEntry(shortcuts_file, cyc)
        /\ ~cyc.pushed
        /\ remote = cyc.remote_before
        /\ \E i \in 1..Len(cyc.echo \o cyc.log) :
              (cyc.echo \o cyc.log)[i] = "Successfully updated shortcuts.json (line_diff lines)."

\* C25, as claimed: after a cycle whose push failed, agent.log holds a record
\* of the sync failure and no record saying that the sync succeeded.
C25_SyncFailureLogged ==
    (cyc.pushed /\ ~cyc.put_ok) =>
        /\ \E i \in 1..Len(cyc.log) : cyc.log[i] = "An error occurred during the request"
        /\ \A i \in 1..Len(cyc.log) : cyc.log[i] # "Successfully synced to the cloud."

\* the LLM's response in cycle c is an object with no "category" or an empty one
NoCategory(c) == c.cand.t = "obj" /\ ~Truthy(CatOf(c))

\* the category keys cycle c may have put on disk: the category of its
\* candidate, if the user confirmed its creation
CreatedKeys(c) == IF c.category_answer = "yes" THEN {CatOf(c).s} ELSE {}

\* C26: a candidate whose category is missing or empty is never committed (the
\* cycle ends Aborted, MissingCategory, with no prompt and no write); a
\* category key is in the store on disk after a cycle only if it was there
\* before the cycle or the user confirmed its creation in that cycle; a cycle
\* whose creation prompt was declined ends Aborted (UserRejectedCategory) with
\* no duplicate verdict, no approval prompt, no write and no push.
C26_CategoryResolution ==
    /\ (Ended(cyc) /\ NoCategory(cyc)) =>
          /\ cyc.outcome = "MissingCategory"
          /\ cyc.prompts = 0 /\ ~cyc.wrote /\ ~cyc.pushed
          /\ shortcuts_file = cyc.store_before
    /\ (cyc.n >= 1 /\ shortcuts_file # cyc.store_before) =>
          \A after \in {StoreOf(shortcuts_file)}, before \in {StoreOf(cyc.store_before)} :
              after.t = "obj" =>
                  KeysOf(after) \subseteq (IF before.t = "obj" THEN KeysOf(before) ELSE {})
                                          \cup CreatedKeys(cyc)
    /\ cyc.category_answer = "no" =>
          /\ cyc.outcome = "UserRejectedCategory"
          /\ cyc.prompts = 1 /\ ~cyc.approval_prompt
          /\ ~cyc.wrote /\ ~cyc.pushed
          /\ shortcuts_file = cyc.store_before

\* C26, witness: the user confirmed a new category and the cycle put it on disk
C26_Witness ==
    /\ cyc.outcome = "Committed"
    /\ cyc.category_answer = "yes"
    /\ CatOf(cyc).s \in KeysOf(StoreOf(shortcuts_file))
    /\ CatOf(cyc).s \notin KeysOf(StoreOf(cyc.store_before))

\* every category of store before is a category of store after, at the same
\* place, and its entries are the first entries of that category, in order
EntriesKept(before, after) ==
    before.t = "obj" =>
        /\ after.t = "obj"
        /\ Len(after.items) >= Len(before.items)
        /\ \A i \in 1..Len(before.items) :
              /\ after.items[i].k = before.items[i].k
              /\ Len(after.items[i].v.items) >= Len(before.items[i].v.items)
              /\ SubSeq(after.items[i].v.items, 1, Len(before.items[i].v.items))
                    = before.items[i].v.items

\* C27: in every step of the agent after the startup pull that changes
\* shortcuts.json, the line count of the file (as get_line_count counts it)
\* does not decrease, and every entry of the store is still there, in the same
\* category and order; hence the same over any sequence of cycles.
C27_MonotonicStore ==
    [][(pc # "start" /\ shortcuts_file' # shortcuts_file) =>
          /\ get_line_count(shortcuts_file') >= get_line_count(shortcuts_file)
          /\ EntriesKept(StoreOf(shortcuts_file), StoreOf(shortcuts_file'))]_vars

\* C27, witness: two cycles in sequence committed an entry each, and the file
\* has more lines than before the second
C27_Witness ==
    /\ prev.outcome = "Committed" /\ cyc.outcome = "Committed"
    /\ get_line_count(shortcuts_file) > get_line_count(cyc.store_before)
    /\ EntriesKept(StoreOf(cyc.store_before), StoreOf(shortcuts_file))
    /\ StoreOf(cyc.store_before) # StoreOf(shortcuts_file)

\* the raw input of cycle c is empty: nothing but whitespace in new_command.txt,
\* or nothing typed at the manual prompt
EmptyInput(c) ==
    /\ c.n >= 1
    /\ IF c.file_triggered
       THEN \A i \in 1..Len(c.input) : IsSpace(c.input[i])
       ELSE c.input = <<>>

\* C28: a cycle whose raw input is empty ends Aborted (Empty) at once: the
\* formatter is not called, no prompt is shown, no exception is raised
\* whatever state shortcuts.json is in, the file and the remote record are
\* as they were, and no push is made.
C28_EmptyInputIsNoOp ==
    EmptyInput(cyc) =>
        /\ cyc.outcome = "Empty" /\ cyc.exc = ""
        /\ cyc.formatter = "not_called"
        /\ cyc.prompts = 0 /\ ~cyc.approval_prompt
        /\ ~cyc.wrote /\ ~cyc.pushed
        /\ shortcuts_file = cyc.store_before
        /\ remote = cyc.remote_before

\* C28, witness: new_command.txt held only whitespace and shortcuts.json, which
\* any other cycle would fail to read, did not exist
C28_Witness ==
    /\ cyc.file_triggered /\ cyc.input # <<>> /\ EmptyInput(cyc)
    /\ cyc.outcome = "Empty"
    /\ ~cyc.store_before.exists /\ ~shortcuts_file.exists

\* C29, as claimed: a JSON document J in a closed json fence parses to J, an
\* unfenced J parses to J, and a response that starts with the json fence
\* marker but has no closing fence is parsed from its content, J, without
\* losing its last three characters.
C29_FenceStripping ==
    call.state = "parsed" =>
        /\ call.wrapper \in ClosedFences => (call.ok /\ formatted_command = call.doc)
        /\ call.wrapper \in {"plain", "padded"} => (call.ok /\ formatted_command = call.doc)
        /\ call.wrapper \in OpenFences => (call.ok /\ formatted_command = call.doc)

\* a cycle leaves a valid shortcuts.json valid
ValidityPreserved ==
    (cyc.n >= 1 /\ shortcuts_file # cyc.store_before)
        => (validate_json(shortcuts_file) \/ ~validate_json(cyc.store_before))

\* C30, as claimed: a cycle leaves a valid shortcuts.json valid, and, the write
\* itself never failing, no cycle ends with a post-write validation failure.
C30_PostWriteCorruptionUnreachable ==
    /\ ValidityPreserved
    /\ cyc.outcome # "PostWriteCorruption"

\* C30, amended: a cycle leaves a valid shortcuts.json valid, and every file a
\* cycle wrote is valid JSON; a cycle ends with a post-write validation
\* failure only over a file that is valid, that is, when the validator
\* subprocess printed no "True" for another reason than the file's content.
C30_WrittenStoreIsValid ==
    /\ ValidityPreserved
    /\ cyc.wrote => validate_json(shortcuts_file)
    /\ cyc.outcome = "PostWriteCorruption" => cyc.wrote

\* C30, witness: the validation of a file that is valid JSON failed
C30_Witness ==
    /\ cyc.outcome = "PostWriteCorruption"
    /\ validate_json(cyc.store_before)
    /\ validate_json(shortcuts_file)
    /\ shortcuts_file # cyc.store_before

Prompts == {"confirm_category", "confirm_command"}

HoldsCommand(store, c) == CountCommand(store, CatOf(c).s, CmdOf(c)) > 0

\* machine A, whose store holds the entry of its last cycle while the remote
\* record is another store (the push failed, or another machine pushed later),
\* runs a pull that succeeds on a non-empty record
PullAfterLocalCommit ==
    /\ cyc.outcome = "Committed" /\ cyc.wrote
    /\ HoldsCommand(StoreOf(shortcuts_file), cyc)
    /\ remote # StoreOf(shortcuts_file)
    /\ pull' # pull /\ pull'.by = "A" /\ pull'.get = "ok"
    /\ Truthy(remote)

\* C32, as claimed: such a pull leaves the local store equal to the remote
\* record, and the locally committed entry is gone.
C32_PullDropsLocalCommit ==
    [][PullAfterLocalCommit =>
          /\ StoreOf(shortcuts_file') = remote
          /\ ~HoldsCommand(StoreOf(shortcuts_file'), cyc)]_vars

\* C32, amended: such a pull writes the remote record over the local file
\* whatever the line counts of the two, so the local store equals the remote
\* record, and the locally committed entry is gone unless the remote record
\* holds an entry with the same command in that category.
C32_PullReplacesLocalStore ==
    [][PullAfterLocalCommit =>
          /\ shortcuts_file' = File(json_dumps(remote))
          /\ StoreOf(shortcuts_file') = remote
          /\ HoldsCommand(StoreOf(shortcuts_file'), cyc) <=> HoldsCommand(remote, cyc)]_vars

\* C32, witness: the push of a committed entry failed, and the next pull left
\* a file with fewer lines that does not hold the entry
C32_Witness ==
    /\ cyc.outcome = "Committed" /\ cyc.wrote /\ ~cyc.put_ok
    /\ pull.done /\ pull.by = "A" /\ pull.get = "ok"
    /\ pull.changed
    /\ call.state = "pull"
    /\ get_line_count(shortcuts_file) < get_line_count(call.before)
    /\ HoldsCommand(StoreOf(call.before), cyc)
    /\ Truthy(pull.record)
    /\ StoreOf(shortcuts_file) = pull.record
    /\ ~HoldsCommand(StoreOf(shortcuts_file), cyc)

====
